---- MODULE Spec2Model ----
(***************************************************************************)
(* Session-and-relay engine of @mcpambassador/client (src/src/index.ts).   *)
(*                                                                         *)
(* One step of the model is one turn of the Node.js event loop: the        *)
(* callback of an I/O or timer event together with every promise           *)
(* continuation it makes runnable (microtasks run to completion before the *)
(* next event is taken).  Each pending backend call is a task: the request *)
(* in flight plus the stack of continuations awaiting its result.          *)
(***************************************************************************)
EXTENDS Integers, Sequences, FiniteSets, Bags, TLC

\* ---------------------------------------------------------------- bounds
MaxTasks == 2        \* backend calls that may be pending at the same time
MaxReg == 2          \* sessions the backend issues (successful registrations)
MaxTime == 1         \* seconds the clock advances
MaxText == 4         \* runs of characters that stdin delivers in all
MaxBeat == 301       \* the largest heartbeat interval tried, besides 500
MaxKey == 5          \* characters of a preshared key after its prefix

\* ------------------------------------------------------------- constants
Null == 0            \* null / absent value of a session field or header

VARIABLES
    sessionId,        \* AmbassadorClient.sessionId
    sessionToken,     \* AmbassadorClient.sessionToken
    connectionId,     \* AmbassadorClient.connectionId
    expiresAt,        \* AmbassadorClient.expiresAt
    toolCatalogCache, \* << >> (null) or << [tools, cached_at, ttl_seconds] >>
    heartbeatTimer,   \* TRUE iff the field holds a timer handle
    isReregistering,  \* the re-authentication flag
    isRunning,
    config,           \* the ClientConfig after the constructor's defaults
    liveTimers,       \* number of setInterval timers alive in the runtime
    tasks,            \* bag of the pending backend calls
    phase,            \* position of cli main(): new, registering, starting, serving, exited
    stdinOpen,        \* stdin has not ended yet
    stopPc,           \* position of stop(): idle, waiting (in Promise.race), done
    disconnect,       \* the DELETE request of sendDisconnect: none, inflight, settled
    nextSession,      \* the next session the backend will issue
    now,              \* Date.now(), in seconds
    observe,          \* which history is kept: session, relay or host
    last,             \* history: the kind of the last step
    fetched,          \* history: some catalog fetch has succeeded
    out,              \* history: the frames the last turn wrote to stdout
    logged,           \* history: the texts the last turn logged
    buffer,           \* start(): the text read from stdin and not yet split off
    fed,              \* history: the text stdin has delivered so far
    emitted           \* history: the lines handed to handleJsonRpcMessage so far

client == <<sessionId, sessionToken, connectionId, expiresAt, toolCatalogCache,
            heartbeatTimer, isReregistering, isRunning, liveTimers>>
vars == <<sessionId, sessionToken, connectionId, expiresAt, toolCatalogCache,
          heartbeatTimer, isReregistering, isRunning, config, liveTimers, tasks,
          phase, stdinOpen, stopPc, disconnect, nextSession, now, observe,
          last, fetched, out, logged, buffer, fed, emitted>>

stdin == <<buffer, fed, emitted>>

\* ------------------------------------------------------- records in use
\* A continuation awaiting the result of a backend call.
Frame(f) == [f |-> f, path |-> "", authenticated |-> FALSE]

\* The continuation of a handler of the dispatcher: it keeps the message's id.
HandlerFrame(f, id) == [f |-> f, path |-> "", authenticated |-> FALSE, id |-> id]

\* The .then/.catch chain that httpRequest attaches to this.register(); it
\* keeps wasSuspended, which its first callback reads.
ReauthFrame(path, authenticated, wasSuspended) ==
    [f |-> "reauth", path |-> path, authenticated |-> authenticated,
     wasSuspended |-> wasSuspended]

NoReq == [path |-> "none", token |-> Null, authenticated |-> FALSE, retryOn401 |-> FALSE]

NoOutcome ==
    [ok |-> FALSE, v |-> 0, err |-> "none", status |-> 0, code |-> "", wrapped |-> FALSE]

Resolved(v) ==
    [ok |-> TRUE, v |-> v, err |-> "", status |-> 0, code |-> "", wrapped |-> FALSE]

\* class HttpError: carries the status code, and the error code of the body
\* ('unknown' when the body names none).
HttpError(statusCode) ==
    [ok |-> FALSE, v |-> 0, err |-> "HttpError", status |-> statusCode,
     code |-> "unknown", wrapped |-> FALSE]

\* A plain Error: "network" (req 'error' event) or "json" (Invalid JSON response).
PlainError(kind) ==
    [ok |-> FALSE, v |-> 0, err |-> kind, status |-> 0, code |-> "", wrapped |-> FALSE]

\* new Error(`Re-registration failed: ${err.message}`): a new plain Error that
\* keeps only the message of the error it replaces.
Wrapped(o) ==
    [ok |-> FALSE, v |-> 0, err |-> "Error", status |-> o.status, code |-> o.code,
     wrapped |-> TRUE]

\* What the backend may answer to one request.  The body of "401" is JSON
\* that names no error code the client knows.
Responses == {"200", "200-badjson", "401", "429", "500", "neterr"}

\* The other bodies of a 401: not JSON, or JSON naming one of the two causes.
Causes == {"401-unparsable", "401-suspended", "401-expired"}

StatusOf(resp) ==
    CASE resp = "200" -> 200
      [] resp = "200-badjson" -> 200
      [] resp = "401" -> 401
      [] resp \in Causes -> 401
      [] resp = "429" -> 429
      [] resp = "500" -> 500
      [] OTHER -> 0

\* parsed?.error || 'unknown', and 'unknown' when JSON.parse throws.
ServerErrorCode(resp) ==
    CASE resp = "401-suspended" -> "session_suspended"
      [] resp = "401-expired" -> "session_expired"
      [] OTHER -> "unknown"

\* ------------------------------------------------------ lines and frames
\* The id of a message: absent (a notification), or the id of a request.  A
\* frame written may also carry the JSON null.
IdAbsent == "absent"

IdNull == "null"

RequestId == "1"

SecondId == "2"

Methods == {"initialize", "tools/list", "tools/call", "notifications/initialized", "absent"}

\* What JSON.parse makes of a line: "garbage" does not parse, "null" parses to
\* a value that has no properties, "object" parses to an object whose
\* properties are the other fields.  params: absent, an object without name,
\* with a name that is a number, with the empty name, with a textual name.
\* The lines of a wrong or missing version are otherwise tools/list messages.
Lines ==
    {m \in [kind : {"garbage", "null", "object"},
            jsonrpc : {"2.0", "1.0", "absent"},
            id : {IdAbsent, RequestId},
            method : Methods,
            params : {"absent", "no-name", "name-number", "name-empty", "name-text"}] :
        /\ m.kind # "object" =>
              m.jsonrpc = "absent" /\ m.id = IdAbsent /\ m.method = "absent"
        /\ (m.kind = "object" /\ m.jsonrpc # "2.0") => m.method = "tools/list"
        /\ m.method # "tools/call" => m.params = "absent"}

ToolsListRequest ==
    [kind |-> "object", jsonrpc |-> "2.0", id |-> RequestId,
     method |-> "tools/list", params |-> "absent"]

ToolsCallRequest ==
    [kind |-> "object", jsonrpc |-> "2.0", id |-> RequestId,
     method |-> "tools/call", params |-> "name-text"]

\* JSON.stringify(response) + '\n': the text of one frame and the newline
\* that ends it.  A member that is undefined (an absent id) is left out of the
\* text; the text itself holds no newline.
\* The result of a frame is the payload the handler made: the tools of the
\* catalog, the content of a tool's result, or the fixed answer to initialize.
InitializeResult ==
    "protocolVersion 2024-11-05, capabilities tools, serverInfo @mcpambassador/client 0.1.0"

ResultFrame(id, result) ==
    [jsonrpc |-> "2.0", id |-> id, kind |-> "result", result |-> result,
     code |-> 0, message |-> "", eol |-> 1]

ErrorFrame(id, code, message) ==
    [jsonrpc |-> "2.0", id |-> id, kind |-> "error", result |-> "",
     code |-> code, message |-> message, eol |-> 1]

\* A line of log text, were it written to stdout.
LogLine(level) ==
    [jsonrpc |-> "absent", id |-> IdAbsent, kind |-> "log", result |-> "",
     code |-> 0, message |-> level, eol |-> 1]

\* Variant: the console as Node.js sets it up (log, info and debug on stdout).
ConsoleStream_NodeDefault(level) ==
    IF level \in {"log", "info", "debug"} THEN "stdout" ELSE "stderr"

\* The stream a console method writes to once cli main() has called
\* configureStderrLogging(); console.error is on stderr by default.
ConsoleStream(level) == "stderr"

\* console.<level>(text)
Log(W, level, text) ==
    IF ConsoleStream(level) = "stdout"
    THEN [W EXCEPT !.out = Append(@, LogLine(level))]
    ELSE [W EXCEPT !.err = Append(@, text)]

\* --------------------------------------------------------------- secrets
\* A secret is a sequence of characters.
PkPrefix == <<"a", "m", "b", "_", "p", "k", "_">>

StPrefix == <<"a", "m", "b", "_", "s", "t", "_">>

Stars == <<"*", "*", "*", "*">>

startsWith(value, prefix) ==
    Len(value) >= Len(prefix) /\ SubSeq(value, 1, Len(prefix)) = prefix

\* value.slice(start, end) for 0 <= start <= end.
slice(value, start, end) ==
    SubSeq(value, start + 1, IF end < Len(value) THEN end ELSE Len(value))

\* value.slice(-n)
sliceLast(value, n) ==
    SubSeq(value, (IF Len(value) > n THEN Len(value) - n ELSE 0) + 1, Len(value))

maskSecret(value) ==
    IF startsWith(value, PkPrefix) THEN PkPrefix \o slice(value, 7, 11) \o Stars
    ELSE IF startsWith(value, StPrefix) THEN StPrefix \o Stars
    ELSE IF Len(value) <= 4 THEN Stars
    ELSE slice(value, 0, 2) \o <<".", ".", ".">> \o sliceLast(value, 2)

\* ------------------------------------------------- the running call (W)
\* W is the client's fields together with the call being run in this turn:
\* its continuation stack, the request it has in flight, and the history
\* counters of the current httpRequest invocation.
Push(W, fr) == [W EXCEPT !.stack = Append(@, fr)]

Pop(W) == [W EXCEPT !.stack = SubSeq(@, 1, Len(@) - 1)]

Top(W) == W.stack[Len(W.stack)]

\* sendJsonRpcResponse / sendJsonRpcError: one frame written to stdout.  A
\* frame for an absent id is written all the same (JSON.stringify leaves the
\* id out).
sendJsonRpcResponse(W, id, result) ==
    [W EXCEPT !.out = Append(@, ResultFrame(id, result))]

sendJsonRpcError(W, id, code, message) ==
    [W EXCEPT !.out = Append(@, ErrorFrame(id, code, message))]

\* Variant: the field is reset but the interval is not cleared.
stopHeartbeat_Leak(W) == [W EXCEPT !.heartbeatTimer = FALSE]

stopHeartbeat(W) ==
    IF W.heartbeatTimer
    THEN [W EXCEPT !.liveTimers = @ - 1, !.heartbeatTimer = FALSE]
    ELSE W

startHeartbeat(W) ==
    LET W1 == stopHeartbeat(W)
    IN  Log([W1 EXCEPT !.liveTimers = @ + 1, !.heartbeatTimer = TRUE],
            "info", <<"Heartbeat started">>)

\* The default of httpRequest's parameter retryOn401.
RetryOn401Default == TRUE

\* Variant: the token is attached whether or not the request is authenticated.
httpRequest_TokenAlways(W, path, authenticated, retryOn401) ==
    [W EXCEPT !.req = [path |-> path,
                       token |-> W.sessionToken,
                       authenticated |-> authenticated,
                       retryOn401 |-> retryOn401],
              !.nReq = @ + 1]

\* httpRequest up to req.end(): the request leaves with the session token in
\* its header when it is authenticated and a token exists.
httpRequest(W, path, authenticated, retryOn401) ==
    [W EXCEPT !.req = [path |-> path,
                       token |-> IF authenticated /\ W.sessionToken # Null
                                 THEN W.sessionToken ELSE Null,
                       authenticated |-> authenticated,
                       retryOn401 |-> retryOn401],
              !.nReq = @ + 1]

\* register() up to its await: stops the heartbeat and sends the registration.
register(W) ==
    LET W1 == Log(stopHeartbeat(W), "info",
                  <<"Registering with preshared key: ">>
                    \o maskSecret(W.cfg.preshared_key))
    IN  httpRequest(Push([W1 EXCEPT !.nReg = @ + 1], Frame("register")),
                    "register", FALSE, RetryOn401Default)

\* The body of a successful registration answer for the backend's session n.
RegistrationResponse(n) ==
    [session_id |-> n, session_token |-> n, connection_id |-> n, expires_at |-> n]

\* Variant: a field already set is kept (the new session is merged in).
StoreSession_Merge(W, response) ==
    startHeartbeat(Log([W EXCEPT !.sessionId = response.session_id,
                             !.sessionToken = response.session_token,
                             !.connectionId = IF @ # Null THEN @
                                              ELSE response.connection_id,
                             !.expiresAt = response.expires_at,
                             !.toolCatalogCache = << >>],
                       "info", <<"Session registered">>))

\* Variant: a token already held is kept.
StoreSession_StaleToken(W, response) ==
    startHeartbeat(Log([W EXCEPT !.sessionId = response.session_id,
                             !.sessionToken = IF @ # Null THEN @
                                              ELSE response.session_token,
                             !.connectionId = response.connection_id,
                             !.expiresAt = response.expires_at,
                             !.toolCatalogCache = << >>],
                       "info", <<"Session registered">>))

\* register() after a successful await: the four fields, the cache, the timer.
StoreSession(W, response) ==
    startHeartbeat(Log([W EXCEPT !.sessionId = response.session_id,
                             !.sessionToken = response.session_token,
                             !.connectionId = response.connection_id,
                             !.expiresAt = response.expires_at,
                             !.toolCatalogCache = << >>],
                       "info", <<"Session registered">>))

\* Variant: a TTL of zero is not taken as disabling the cache.
CachingDisabled_FlagOnly(cfg) == cfg.disable_cache

CachingDisabled(cfg) == cfg.disable_cache \/ cfg.cache_ttl_seconds = 0

\* age < ttl_seconds * 1000, with Date.now() counted in seconds.
CacheFresh(cache, t) == (t - cache.cached_at) * 1000 < cache.ttl_seconds * 1000

\* getToolCatalog after a successful fetch.
UpdateCache(W, tools) ==
    IF ~CachingDisabled(W.cfg)
    THEN [W EXCEPT !.toolCatalogCache =
                      << [tools |-> tools, cached_at |-> W.now,
                          ttl_seconds |-> W.cfg.cache_ttl_seconds] >>]
    ELSE W

\* Variant: the re-authentication flag is not consulted.
MayReauth_NoFlag(statusCode, retryOn401, flag) == statusCode = 401 /\ retryOn401

\* The condition under which a 401 starts a re-authentication.
MayReauth(statusCode, retryOn401, flag) == statusCode = 401 /\ retryOn401 /\ ~flag

\* Variant: the retry is sent with the default retryOn401.
RetryRequest_DefaultRetry(W, fr) ==
    httpRequest(Push([W EXCEPT !.nRetry = @ + 1], Frame("retry")),
                fr.path, fr.authenticated, RetryOn401Default)

\* Variant: the flag is released before the retry, which may retry again.
RetryRequest_Loop(W, fr) ==
    httpRequest(Push([W EXCEPT !.nRetry = @ + 1, !.isReregistering = FALSE],
                     Frame("retry")),
                fr.path, fr.authenticated, RetryOn401Default)

\* The retry issued after a successful re-registration.
RetryRequest(W, fr) ==
    httpRequest(Push([W EXCEPT !.nRetry = @ + 1], Frame("retry")),
                fr.path, fr.authenticated, FALSE)

\* Variant: only a rate-limited heartbeat is let through.
HeartbeatOutcome_Only429(o) ==
    IF ~o.ok /\ o.err = "HttpError" /\ o.status = 429 THEN Resolved(0) ELSE o

\* sendHeartbeat after its await: an HttpError with status 429 or 401 is
\* swallowed, any other failure is rethrown.
HeartbeatOutcome(o) ==
    IF ~o.ok /\ o.err = "HttpError" /\ o.status \in {429, 401} THEN Resolved(0) ELSE o

\* Variant: a failed fetch is always rethrown.
StaleFallback_Never(cache, o) == o

\* Variant: with no snapshot a failed fetch yields an empty catalog.
StaleFallback_EmptyCatalog(cache, o) ==
    IF cache # << >> THEN Resolved(cache[1].tools) ELSE Resolved(0)

\* The catch block of getToolCatalog: the tools of whatever snapshot exists,
\* else the error itself.
StaleFallback(cache, o) ==
    IF cache # << >> THEN Resolved(cache[1].tools) ELSE o

\* What sendHeartbeat logs after its await.
HeartbeatLog(W, o) ==
    IF o.ok THEN Log(W, "debug", <<"Heartbeat sent successfully">>)
    ELSE IF o.err = "HttpError" /\ o.status = 429
    THEN Log(W, "debug", <<"Heartbeat rate limited, skipping">>)
    ELSE IF o.err = "HttpError" /\ o.status = 401
    THEN Log(W, "warn", <<"Heartbeat returned 401">>)
    ELSE W

\* Variant: the handler passes the failure's own message on to the host.
FailureMessage_Leak(f, o) == o.err

\* The message of the error frame a handler's catch block writes.
FailureMessage(f, o) ==
    IF f = "handleToolsList" THEN "Failed to fetch tool catalog"
    ELSE "Tool invocation failed"

ApiFrames == {"register", "getToolCatalog", "invokeTool", "sendHeartbeat"}

\* History: the outcome an httpRequest invocation hands to the method that
\* made it (not recorded for the register() nested in a re-authentication).
NoteReturn(W, o) ==
    LET fr == Top(W)
        below == Pop(W)
        nested == fr.f = "register" /\ below.stack # << >> /\ Top(below).f = "reauth"
    IN  IF fr.f \in ApiFrames /\ W.src \in {"http", "reauth", "retry"} /\ ~nested
        THEN [W EXCEPT !.ret = o, !.how = W.src,
                       !.retCount = [nReq |-> W.nReq, nReg |-> W.nReg, nRetry |-> W.nRetry]]
        ELSE W

\* Variant: the flag is cleared when the chain resolves, not when it rejects.
Release_OnSuccessOnly(P, o) ==
    IF o.ok THEN [P EXCEPT !.isReregistering = FALSE] ELSE P

\* The second .then and the .catch of the chain attached to this.register():
\* each clears the flag before it settles the caller's promise with o.
Release(P, o) == [P EXCEPT !.isReregistering = FALSE]

RECURSIVE Settle(_, _), getToolCatalog(_)

\* Hands outcome o to the continuation on top of the stack and runs on until
\* the call awaits another request or its stack is empty.
Settle(W0, o) ==
    IF W0.stack = << >> THEN W0
    ELSE
    LET W == NoteReturn(W0, o)
        fr == Top(W)
        P == [Pop(W) EXCEPT !.src = fr.f]
    IN  CASE fr.f = "register" ->
               IF o.ok THEN Settle(StoreSession(P, RegistrationResponse(o.v)), o)
               ELSE Settle(Log(P, "error", <<"Registration failed:", o.err>>), o)
          [] fr.f = "reauth" ->
               IF o.ok
               THEN RetryRequest(
                        (IF fr.wasSuspended
                         THEN Log(P, "error", <<"Reconnected successfully.">>)
                         ELSE Log(P, "info", <<"Re-registration successful">>)), fr)
               ELSE Settle(Log(Release(P, o),
                               "error", <<"Failed to reconnect:", o.err>>),
                           Wrapped(o))
          [] fr.f = "retry" ->
               IF o.ok THEN Settle(Release(P, o), o)
               ELSE Settle(Log(Release(P, o),
                               "error", <<"Failed to reconnect:", o.err>>),
                           Wrapped(o))
          [] fr.f = "getToolCatalog" ->
               IF o.ok
               THEN Settle(Log([UpdateCache(P, o.v) EXCEPT !.cat = o],
                               "info", <<"Fetched tools">>), o)
               ELSE LET r == StaleFallback(P.toolCatalogCache, o)
                        P1 == Log(P, "error", <<"Failed to fetch tool catalog:", o.err>>)
                    IN  Settle([(IF P.toolCatalogCache # << >>
                                 THEN Log(P1, "warn", <<"Using stale cache">>)
                                 ELSE P1) EXCEPT !.cat = r], r)
          [] fr.f = "invokeTool" ->
               IF o.ok THEN Settle(Log(P, "debug", <<"Tool invocation successful">>), o)
               ELSE Settle(Log(P, "error", <<"Tool invocation failed:", o.err>>), o)
          [] fr.f = "sendHeartbeat" ->
               Settle(HeartbeatLog(P, o), HeartbeatOutcome(o))
          [] fr.f = "main" ->
               IF o.ok /\ ~P.isRunning
               THEN getToolCatalog(
                        Push(Log(Log([P EXCEPT !.isRunning = TRUE, !.phase = "starting",
                                               !.nReq = 0, !.nReg = 0, !.nRetry = 0],
                                     "info", <<"Registration successful">>),
                                 "info", <<"Starting MCP server on stdio...">>),
                             Frame("start")))
               ELSE Log([P EXCEPT !.phase = "exited", !.stack = << >>],
                        "error", <<"Fatal error:", o.err>>)
          [] fr.f = "start" ->
               Settle(Log((IF o.ok THEN [P EXCEPT !.phase = "serving"]
                           ELSE Log([P EXCEPT !.phase = "serving"],
                                    "warn", <<"Initial catalog fetch failed:", o.err>>)),
                          "info", <<"MCP server started successfully">>), o)
          [] fr.f = "heartbeatTick" ->
               IF o.ok THEN Settle([P EXCEPT !.hb = "ok"], o)
               ELSE Settle(Log([P EXCEPT !.hb = "failed"],
                               "error", <<"Heartbeat failed:", o.err>>), o)
          [] OTHER ->
               IF o.ok
               THEN Settle(sendJsonRpcResponse(
                               [P EXCEPT !.reply = "result"], fr.id,
                               IF fr.f = "handleToolsList" THEN "tools" ELSE "content"), o)
               ELSE Settle(sendJsonRpcError(
                               Log([P EXCEPT !.reply = "error"],
                                   "error", <<fr.f, "failed:", o.err>>),
                               fr.id, -32603, FailureMessage(fr.f, o)), o)

\* Variant: the snapshot is not consulted before fetching.
getToolCatalog_AlwaysFetch(W) ==
    httpRequest(Push(Log(W, "info", <<"Fetching tool catalog from server...">>),
                     Frame("getToolCatalog")),
                "tools", TRUE, RetryOn401Default)

\* getToolCatalog up to its await: a fresh snapshot is returned at once,
\* otherwise the catalog is fetched.
getToolCatalog(W) ==
    IF /\ ~CachingDisabled(W.cfg)
       /\ W.toolCatalogCache # << >>
       /\ CacheFresh(W.toolCatalogCache[1], W.now)
    THEN Settle(Log([W EXCEPT !.src = "getToolCatalog",
                              !.cat = Resolved(W.toolCatalogCache[1].tools)],
                    "debug", <<"Using cached tool catalog">>),
                Resolved(W.toolCatalogCache[1].tools))
    ELSE httpRequest(Push(Log(W, "info", <<"Fetching tool catalog from server...">>),
                          Frame("getToolCatalog")),
                     "tools", TRUE, RetryOn401Default)

\* What a 2xx body parses to: the new session for a registration, the
\* catalog (or result) the backend serves to the session of the token sent.
ResponseValue(req, session) ==
    IF req.path = "register" THEN session
    ELSE IF req.path = "heartbeat" THEN 0
    ELSE req.token

\* What the 401 branch logs before it re-registers: one text per cause, the
\* generic one with the message of the body or, unparsable, the body itself.
ReauthNotice(resp) ==
    CASE ServerErrorCode(resp) = "session_suspended" ->
             <<"Session suspended. Reconnecting... MCP instances restarting.">>
      [] ServerErrorCode(resp) = "session_expired" ->
             <<"Session expired, re-registering...">>
      [] OTHER ->
             <<"Session authentication failure. Re-registering...",
               IF resp = "401-unparsable" THEN "data" ELSE "message">>

\* Variant: a suspended session is not re-registered; the 401 is passed on.
Reauthenticate_NotWhenSuspended(W, req, resp) ==
    IF ServerErrorCode(resp) = "session_suspended"
    THEN Settle(W, [HttpError(StatusOf(resp)) EXCEPT !.code = ServerErrorCode(resp)])
    ELSE register(Push(Log([W EXCEPT !.isReregistering = TRUE],
                           "error", ReauthNotice(resp)),
                       ReauthFrame(req.path, req.authenticated,
                                   ServerErrorCode(resp) = "session_suspended")))

\* The 401 branch of httpRequest: the notice, the flag, this.register() with
\* the chain attached.
Reauthenticate(W, req, resp) ==
    register(Push(Log([W EXCEPT !.isReregistering = TRUE],
                      "error", ReauthNotice(resp)),
                  ReauthFrame(req.path, req.authenticated,
                              ServerErrorCode(resp) = "session_suspended")))

\* httpRequest from the arrival of the response (res 'end') or of a network
\* error (req 'error').
httpRequestEnd(W, req, resp) ==
    IF resp = "neterr" THEN Settle(W, PlainError("network"))
    ELSE IF StatusOf(resp) >= 200 /\ StatusOf(resp) < 300
    THEN IF resp = "200"
         THEN Settle(W, Resolved(ResponseValue(req, W.nextSession)))
         ELSE Settle(W, PlainError("json"))
    ELSE IF MayReauth(StatusOf(resp), req.retryOn401, W.isReregistering)
    THEN Reauthenticate(W, req, resp)
    ELSE Settle(W, [HttpError(StatusOf(resp)) EXCEPT !.code = ServerErrorCode(resp)])

\* Variant: the heartbeat is sent with the default retryOn401.
sendHeartbeat_DefaultRetry(W) ==
    IF W.sessionToken = Null
    THEN Log(W, "warn", <<"No session token, skipping heartbeat">>)
    ELSE httpRequest(Push(Push(W, Frame("heartbeatTick")), Frame("sendHeartbeat")),
                     "heartbeat", TRUE, RetryOn401Default)

\* sendHeartbeat up to its await (the interval's callback).
sendHeartbeat(W) ==
    IF W.sessionToken = Null
    THEN Log(W, "warn", <<"No session token, skipping heartbeat">>)
    ELSE httpRequest(Push(Push(W, Frame("heartbeatTick")), Frame("sendHeartbeat")),
                     "heartbeat", TRUE, FALSE)

\* handleToolsList up to its await.
handleToolsList(W, message) ==
    getToolCatalog(Push(W, HandlerFrame("handleToolsList", message.id)))

\* Variant: the return after the refusal of a bad name is missing.
handleToolsCall_NoReturn(W, message) ==
    IF message.params = "absent"
    THEN sendJsonRpcError(Log(W, "error", <<"tools/call failed:", "TypeError">>),
                          message.id, -32603,
                          FailureMessage("handleToolsCall", PlainError("TypeError")))
    ELSE httpRequest(
             Push(Push(Log((IF message.params # "name-text"
                            THEN sendJsonRpcError(W, message.id, -32602,
                                                  "Invalid params: name required")
                            ELSE W), "debug", <<"Invoking tool">>),
                       HandlerFrame("handleToolsCall", message.id)),
                  Frame("invokeTool")),
             "invoke", TRUE, RetryOn401Default)

\* handleToolsCall up to the await in invokeTool: destructuring absent params
\* throws into the handler's catch; a name that is missing, empty or not a
\* string is refused.
handleToolsCall(W, message) ==
    IF message.params = "absent"
    THEN sendJsonRpcError(Log(W, "error", <<"tools/call failed:", "TypeError">>),
                          message.id, -32603,
                          FailureMessage("handleToolsCall", PlainError("TypeError")))
    ELSE IF message.params # "name-text"
    THEN sendJsonRpcError(W, message.id, -32602, "Invalid params: name required")
    ELSE httpRequest(Push(Push(Log(W, "debug", <<"Invoking tool">>),
                               HandlerFrame("handleToolsCall", message.id)),
                          Frame("invokeTool")),
                     "invoke", TRUE, RetryOn401Default)

\* Variant: the answer to initialize waits for the catalog.
handleInitialize_Fetching(W, message) ==
    getToolCatalog(Push(W, HandlerFrame("handleInitialize", message.id)))

handleInitialize(W, message) == sendJsonRpcResponse(W, message.id, InitializeResult)

\* Variant: the version of the message is not checked.
ValidMessage_AnyVersion(line) == line.kind = "object"

\* JSON.parse succeeds and the message says jsonrpc "2.0".
ValidMessage(line) == line.kind = "object" /\ line.jsonrpc = "2.0"

\* Variant: the error for an unknown method carries a null id.
MethodNotFound_NullId(W, message) ==
    sendJsonRpcError(W, IdNull, -32601, "Method not found")

\* The else branch of the dispatch on the method.
MethodNotFound(W, message) ==
    sendJsonRpcError(W, message.id, -32601, "Method not found")

\* handleJsonRpcMessage up to its first await.
handleJsonRpcMessage(W, line) ==
    IF ~ValidMessage(line)
    THEN sendJsonRpcError(Log(W, "error", <<"Failed to parse JSON-RPC message">>),
                          IdNull, -32700, "Parse error")
    ELSE IF line.method = "tools/list" THEN handleToolsList(W, line)
    ELSE IF line.method = "tools/call" THEN handleToolsCall(W, line)
    ELSE IF line.method = "initialize" THEN handleInitialize(W, line)
    ELSE MethodNotFound(W, line)

\* Variant: the expiry is left behind.
ClearSession_KeepExpiry(W) ==
    [W EXCEPT !.sessionId = Null, !.sessionToken = Null, !.connectionId = Null]

\* Variant: stop() drops the catalog snapshot along with the session.
ClearSession_DropCache(W) ==
    [W EXCEPT !.sessionId = Null, !.sessionToken = Null,
              !.connectionId = Null, !.expiresAt = Null,
              !.toolCatalogCache = << >>]

\* stop() after the race (or at once when there is no connection).
ClearSession(W) ==
    [W EXCEPT !.sessionId = Null, !.sessionToken = Null,
              !.connectionId = Null, !.expiresAt = Null]

\* stop() up to its await.
stop(W) ==
    IF ~W.isRunning THEN W
    ELSE LET W1 == stopHeartbeat(Log([W EXCEPT !.isRunning = FALSE],
                                     "info", <<"Stopping MCP server...">>))
         IN  IF W1.connectionId # Null
             THEN [W1 EXCEPT !.stopPc = "waiting", !.disconnect = "inflight"]
             ELSE [ClearSession(W1) EXCEPT !.stopPc = "done"]

\* Variant: stop() awaits sendDisconnect() alone; the timeout resumes nothing.
stopResume_AwaitDisconnect(W, winner) ==
    IF winner = "timeout" THEN W ELSE [ClearSession(W) EXCEPT !.stopPc = "done"]

\* stop() resumed by whichever promise of the race settled first, the
\* disconnect or the timeout: the session is cleared either way.
stopResume(W, winner) == [ClearSession(W) EXCEPT !.stopPc = "done"]

\* ------------------------------------------------------------ the steps
\* The client's state as the turn that runs call t finds it.
Running(t) ==
    [sessionId |-> sessionId, sessionToken |-> sessionToken,
     connectionId |-> connectionId, expiresAt |-> expiresAt,
     toolCatalogCache |-> toolCatalogCache, heartbeatTimer |-> heartbeatTimer,
     isReregistering |-> isReregistering, isRunning |-> isRunning,
     liveTimers |-> liveTimers, cfg |-> config, phase |-> phase,
     stopPc |-> stopPc, disconnect |-> disconnect,
     nextSession |-> nextSession, now |-> now,
     stack |-> t.stack, req |-> NoReq,
     nReq |-> t.nReq, nReg |-> t.nReg, nRetry |-> t.nRetry,
     src |-> "http", ret |-> NoOutcome, how |-> "none", reply |-> "none",
     cat |-> NoOutcome, hb |-> "none", out |-> << >>, err |-> << >>,
     buffer |-> buffer, emitted |-> << >>, skipped |-> 0, spawned |-> EmptyBag,
     retCount |-> [nReq |-> 0, nReg |-> 0, nRetry |-> 0]]

NewCall == [stack |-> << >>, req |-> NoReq, nReq |-> 0, nReg |-> 0, nRetry |-> 0]

TaskOf(W) ==
    [stack |-> W.stack, req |-> W.req, nReq |-> W.nReq, nReg |-> W.nReg, nRetry |-> W.nRetry]

\* The turn's effect on the client's fields.
Commit(W) ==
    /\ sessionId' = W.sessionId
    /\ sessionToken' = W.sessionToken
    /\ connectionId' = W.connectionId
    /\ expiresAt' = W.expiresAt
    /\ toolCatalogCache' = W.toolCatalogCache
    /\ heartbeatTimer' = W.heartbeatTimer
    /\ isReregistering' = W.isReregistering
    /\ isRunning' = W.isRunning
    /\ liveTimers' = W.liveTimers
    /\ phase' = W.phase
    /\ stopPc' = W.stopPc
    /\ disconnect' = W.disconnect
    /\ out' = IF observe \in {"host", "wire", "reader", "order"} THEN W.out ELSE << >>
    /\ logged' = IF observe = "config" THEN W.err ELSE << >>

\* The call left pending by the turn, if any, replaces the call it ran.
Pending(W) == IF W.req = NoReq THEN EmptyBag ELSE SetToBag({TaskOf(W)})

\* Call t is the one that took the re-authentication flag.
Holder(t) == \E i \in 1..Len(t.stack) : t.stack[i].f \in {"reauth", "retry"}

\* The method the call was started by, and the continuation its request resumes.
Origin(t) == t.stack[1].f

TopOf(t) == t.stack[Len(t.stack)].f

\* The turn run by the answer resp to the request of call t.
Answer(t, resp) == httpRequestEnd(Running(t), t.req, resp)

\* The handlers that await the backend for a request of the host.
HandlerOrigins == {"handleToolsList", "handleToolsCall"}

\* History: the kind of step that turn W, run by the answer resp to call t,
\* makes, among the kinds the history kept is about.
StepKind(W, t, resp) ==
    IF observe = "session"
    THEN CASE TopOf(t) = "retry" ->
                IF resp = "200" THEN "retried-ok"
                ELSE IF resp = "401" THEN "retried-401" ELSE "retried-failed"
           [] W.isReregistering /\ ~isReregistering -> "reauth-started"
           [] resp = "401" /\ isReregistering /\ ~Holder(t) /\ t.req.retryOn401 ->
                "failed-fast"
           [] t.req.path = "register" /\ resp = "200" -> "registered"
           [] OTHER -> "other"
    ELSE IF observe \in {"relay", "wire"}
    THEN CASE t.req.path = "heartbeat" /\ resp = "401" -> "heartbeat-401"
           [] t.req.path = "heartbeat" /\ resp = "429" -> "heartbeat-429"
           [] W.cat # NoOutcome /\ ~W.ret.ok /\ W.cat.ok -> "catalog-stale"
           [] W.cat # NoOutcome /\ ~W.ret.ok /\ ~W.cat.ok -> "catalog-failed"
           [] OTHER -> "other"
    ELSE IF observe = "order"
    THEN IF /\ W.req = NoReq /\ t.nReq = 1 /\ Origin(t) \in HandlerOrigins
            /\ \E u \in BagToSet(tasks (-) SetToBag({t})) :
                   /\ Origin(u) \in HandlerOrigins /\ u.nReq = 1
                   /\ u.req.token < t.req.token
         THEN "overtook" ELSE "other"
    ELSE "other"

\* A preshared key as the server issues them (amb_pk_ and a random text).
SampleKey == PkPrefix \o <<"x", "x", "x", "x", "x">>

\* The configuration the client is constructed with where the claims at hand
\* do not vary it: a TTL of one second, the default heartbeat interval.
DefaultConfig ==
    [disable_cache |-> FALSE, cache_ttl_seconds |-> 1,
     heartbeat_interval_seconds |-> 60, preshared_key |-> SampleKey]

HasRoom == BagCardinality(tasks) < MaxTasks

Alive == phase # "exited"

Init ==
    /\ sessionId = Null
    /\ sessionToken = Null
    /\ connectionId = Null
    /\ expiresAt = Null
    /\ toolCatalogCache = << >>
    /\ heartbeatTimer = FALSE
    /\ isReregistering = FALSE
    /\ isRunning = FALSE
    /\ config = DefaultConfig
    /\ liveTimers = 0
    /\ tasks = EmptyBag
    /\ phase = "new"
    /\ stdinOpen = TRUE
    /\ stopPc = "idle"
    /\ disconnect = "none"
    /\ nextSession = 1
    /\ now = 0
    /\ observe = "session"
    /\ last = "other"
    /\ fetched = FALSE
    /\ out = << >>
    /\ logged = << >>
    /\ buffer = << >>
    /\ fed = << >>
    /\ emitted = << >>

\* cli main(): await client.register().
MainRegister ==
    /\ phase = "new"
    /\ \E W \in {register(Push([Running(NewCall) EXCEPT !.phase = "registering"],
                                Frame("main")))} :
           /\ Commit(W)
           /\ tasks' = tasks (+) Pending(W)
    /\ last' = "other"
    /\ UNCHANGED <<stdin, config, observe, stdinOpen, nextSession, now, fetched>>

\* The backend's answer to the request of call t arrives (or the request
\* fails on the network).
Respond(t, resp) ==
    /\ Alive
    /\ (resp = "200" /\ t.req.path = "register") => nextSession <= MaxReg
    /\ \E W \in {Answer(t, resp)} :
           /\ Commit(W)
           /\ tasks' = (tasks (-) SetToBag({t})) (+) Pending(W)
           /\ last' = StepKind(W, t, resp)
           /\ fetched' = (fetched \/ (observe = "relay" /\ W.cat # NoOutcome /\ W.ret.ok))
    /\ nextSession' = IF resp = "200" /\ t.req.path = "register"
                      THEN nextSession + 1 ELSE nextSession
    /\ UNCHANGED <<stdin, config, observe, stdinOpen, now>>

\* A tools/list line is read from stdin and dispatched.
DispatchToolsList ==
    /\ phase = "serving" /\ stdinOpen /\ HasRoom
    /\ \E W \in {handleJsonRpcMessage(Running(NewCall), ToolsListRequest)} :
           /\ Commit(W)
           /\ tasks' = tasks (+) Pending(W)
           /\ last' = IF observe = "relay" /\ W.cat # NoOutcome
                       THEN "cache-hit" ELSE "other"
    /\ UNCHANGED <<stdin, config, observe, stdinOpen, nextSession, now, fetched>>

\* A tools/call line with a textual name is read from stdin and dispatched.
DispatchToolsCall ==
    /\ phase = "serving" /\ stdinOpen /\ HasRoom
    /\ \E W \in {handleJsonRpcMessage(Running(NewCall), ToolsCallRequest)} :
           /\ Commit(W)
           /\ tasks' = tasks (+) Pending(W)
    /\ last' = "other"
    /\ UNCHANGED <<stdin, config, observe, stdinOpen, nextSession, now, fetched>>

\* A live heartbeat interval fires.
HeartbeatFire ==
    /\ Alive /\ liveTimers > 0 /\ HasRoom
    /\ \E W \in {sendHeartbeat(Running(NewCall))} :
           /\ Commit(W)
           /\ tasks' = tasks (+) Pending(W)
    /\ last' = "other"
    /\ UNCHANGED <<stdin, config, observe, stdinOpen, nextSession, now, fetched>>

\* stdin ends: the 'end' listener calls stop().
StdinEnd ==
    /\ phase = "serving" /\ stdinOpen
    /\ stdinOpen' = FALSE
    /\ \E W \in {stop(Running(NewCall))} :
           Commit(W)
    /\ last' = "other"
    /\ UNCHANGED <<stdin, config, observe, tasks, nextSession, now, fetched>>

\* The DELETE of sendDisconnect is answered, fails, or idles for 2 s: in each
\* case its promise resolves; stop() resumes if it is still in the race.
DisconnectSettle ==
    /\ Alive /\ disconnect = "inflight"
    /\ \E W0 \in {[Running(NewCall) EXCEPT !.disconnect = "settled"]} :
         \E W \in {IF stopPc = "waiting" THEN stopResume(W0, "disconnect") ELSE W0} :
           Commit(W)
    /\ last' = "other"
    /\ UNCHANGED <<stdin, config, observe, tasks, stdinOpen, nextSession, now, fetched>>

\* The 2 s timer of stop()'s race fires first.
StopTimeout ==
    /\ Alive /\ stopPc = "waiting"
    /\ \E W \in {stopResume(Running(NewCall), "timeout")} :
           Commit(W)
    /\ last' = "stop-timeout"
    /\ UNCHANGED <<stdin, config, observe, tasks, stdinOpen, nextSession, now, fetched>>

\* Time passes.
Tick ==
    /\ Alive /\ now < MaxTime
    /\ now' = now + 1
    /\ last' = "other"
    /\ out' = << >>
    /\ logged' = << >>
    /\ UNCHANGED <<stdin, client, config, observe, tasks, phase, stdinOpen, stopPc, disconnect, nextSession,
                   fetched>>

Next ==
    \/ MainRegister
    \/ \E t \in BagToSet(tasks), resp \in Responses : Respond(t, resp)
    \/ DispatchToolsList
    \/ DispatchToolsCall
    \/ HeartbeatFire
    \/ StdinEnd
    \/ DisconnectSettle
    \/ StopTimeout
    \/ Tick

Spec == Init /\ [][Next]_vars

\* Two configurations that disable caching: a TTL of zero, and the flag.
TtlZero == [DefaultConfig EXCEPT !.cache_ttl_seconds = 0]

CacheOff == [DefaultConfig EXCEPT !.disable_cache = TRUE]

\* The same client with the history of the relay (heartbeat, catalog) kept.
InitRelay ==
    /\ sessionId = Null
    /\ sessionToken = Null
    /\ connectionId = Null
    /\ expiresAt = Null
    /\ toolCatalogCache = << >>
    /\ heartbeatTimer = FALSE
    /\ isReregistering = FALSE
    /\ isRunning = FALSE
    /\ config = DefaultConfig
    /\ liveTimers = 0
    /\ tasks = EmptyBag
    /\ phase = "new"
    /\ stdinOpen = TRUE
    /\ stopPc = "idle"
    /\ disconnect = "none"
    /\ nextSession = 1
    /\ now = 0
    /\ observe = "relay"
    /\ last = "other"
    /\ fetched = FALSE
    /\ out = << >>
    /\ logged = << >>
    /\ buffer = << >>
    /\ fed = << >>
    /\ emitted = << >>

\* The client constructed with caching disabled, one way or the other.
InitNoCache ==
    /\ sessionId = Null
    /\ sessionToken = Null
    /\ connectionId = Null
    /\ expiresAt = Null
    /\ toolCatalogCache = << >>
    /\ heartbeatTimer = FALSE
    /\ isReregistering = FALSE
    /\ isRunning = FALSE
    /\ config \in {TtlZero, CacheOff}
    /\ liveTimers = 0
    /\ tasks = EmptyBag
    /\ phase = "new"
    /\ stdinOpen = TRUE
    /\ stopPc = "idle"
    /\ disconnect = "none"
    /\ nextSession = 1
    /\ now = 0
    /\ observe = "relay"
    /\ last = "other"
    /\ fetched = FALSE
    /\ out = << >>
    /\ logged = << >>
    /\ buffer = << >>
    /\ fed = << >>
    /\ emitted = << >>

\* With caching disabled the clock is never read: no step depends on it.
NextNoCache ==
    \/ MainRegister
    \/ \E t \in BagToSet(tasks), resp \in Responses : Respond(t, resp)
    \/ DispatchToolsList
    \/ DispatchToolsCall
    \/ HeartbeatFire
    \/ StdinEnd
    \/ DisconnectSettle
    \/ StopTimeout

NoCacheSpec == InitNoCache /\ [][NextNoCache]_vars

RelaySpec == InitRelay /\ [][Next]_vars

\* Variant: the reader awaits each handler, so a line is dispatched only when
\* no call is pending.
HostLine_Awaited(line) ==
    /\ phase = "serving" /\ stdinOpen
    /\ tasks = EmptyBag
    /\ \E W \in {handleJsonRpcMessage(Running(NewCall), line)} :
           /\ BagCardinality(tasks (+) Pending(W)) <= MaxTasks
           /\ Commit(W)
           /\ tasks' = tasks (+) Pending(W)
    /\ last' = "other"
    /\ UNCHANGED <<stdin, config, observe, stdinOpen, nextSession, now, fetched>>

\* Any line is read from stdin and dispatched.
HostLine(line) ==
    /\ phase = "serving" /\ stdinOpen
    /\ \E W \in {handleJsonRpcMessage(Running(NewCall), line)} :
           /\ BagCardinality(tasks (+) Pending(W)) <= MaxTasks
           /\ Commit(W)
           /\ tasks' = tasks (+) Pending(W)
    /\ last' = "other"
    /\ UNCHANGED <<stdin, config, observe, stdinOpen, nextSession, now, fetched>>

\* The host's lines and the backend's answers (no timer fires, stdin stays open).
NextHost ==
    \/ MainRegister
    \/ \E t \in BagToSet(tasks), resp \in Responses : Respond(t, resp)
    \/ \E line \in Lines : HostLine(line)

\* The same client fed any line by the host, with the frames written kept.
InitHost ==
    /\ sessionId = Null
    /\ sessionToken = Null
    /\ connectionId = Null
    /\ expiresAt = Null
    /\ toolCatalogCache = << >>
    /\ heartbeatTimer = FALSE
    /\ isReregistering = FALSE
    /\ isRunning = FALSE
    /\ config = DefaultConfig
    /\ liveTimers = 0
    /\ tasks = EmptyBag
    /\ phase = "new"
    /\ stdinOpen = TRUE
    /\ stopPc = "idle"
    /\ disconnect = "none"
    /\ nextSession = 1
    /\ now = 0
    /\ observe = "host"
    /\ last = "other"
    /\ fetched = FALSE
    /\ out = << >>
    /\ logged = << >>
    /\ buffer = << >>
    /\ fed = << >>
    /\ emitted = << >>

HostSpec == InitHost /\ [][NextHost]_vars

\* The runtime fires an armed timer: stop()'s 2 s timeout is not starved.
FairSpec == Spec /\ WF_vars(StopTimeout)

\* ------------------------------------------------------------ properties
SessionFields == <<sessionId, sessionToken, connectionId, expiresAt>>

SessionAbsent == SessionFields = <<Null, Null, Null, Null>>

SessionPresent ==
    sessionId # Null /\ sessionToken # Null /\ connectionId # Null /\ expiresAt # Null

\* Calls made for an authenticated request of the host or of start() (a
\* catalog fetch or a tool invocation), not for cli main's registration.
HostOrigins == {"start", "handleToolsList", "handleToolsCall"}

\* The step is the arrival of answer resp to call t (which leaves the bag of
\* pending calls: the first conjunct follows from the second).
Answers(t, resp) ==
    /\ CopiesIn(t, tasks') < CopiesIn(t, tasks)
    /\ Respond(t, resp)

Counts(W) == [nReq |-> W.nReq, nReg |-> W.nReg, nRetry |-> W.nRetry]

\* C1: an authenticated request sent with retry allowed and answered 401 while
\* no re-authentication is in flight sends exactly one registration request;
\* when that registration succeeds the original request is re-sent exactly
\* once, with retry disabled and the new token; the caller gets the retry's
\* result (its value when it succeeds, a failure when it fails).
C1_ReauthOnceRetryOnce ==
    [][\A t \in BagToSet(tasks) :
        Origin(t) \in HostOrigins =>
          /\ (t.req.retryOn401 /\ ~isReregistering /\ Answers(t, "401")) =>
                LET W == Answer(t, "401")
                IN  /\ W.req = [path |-> "register", token |-> Null,
                                authenticated |-> FALSE, retryOn401 |-> TRUE]
                    /\ Counts(W) = [nReq |-> 2, nReg |-> 1, nRetry |-> 0]
                    /\ W.ret = NoOutcome
                    /\ isReregistering'
          /\ (TopOf(t) = "register" /\ Answers(t, "200")) =>
                LET W == Answer(t, "200")
                IN  /\ W.req = [path |-> (IF Origin(t) = "handleToolsCall"
                                          THEN "invoke" ELSE "tools"),
                                token |-> sessionToken',
                                authenticated |-> TRUE, retryOn401 |-> FALSE]
                    /\ sessionToken' = RegistrationResponse(nextSession).session_token
                    /\ Counts(W) = [nReq |-> 3, nReg |-> 1, nRetry |-> 1]
                    /\ W.ret = NoOutcome
          /\ \A resp \in Responses :
                (TopOf(t) = "retry" /\ Answers(t, resp)) =>
                  LET W == Answer(t, resp)
                  IN  /\ W.how = "retry"
                      /\ W.retCount = [nReq |-> 3, nReg |-> 1, nRetry |-> 1]
                      /\ W.req = NoReq
                      /\ ~t.req.retryOn401
                      /\ W.ret.ok = (resp = "200")
                      /\ resp = "200" =>
                            W.ret = Resolved(ResponseValue(t.req, nextSession))
      ]_vars

C1_Witness ==
    /\ last = "retried-ok"
    /\ \A t \in BagToSet(tasks) : ~Holder(t)
    /\ ~isReregistering /\ SessionPresent /\ sessionId = 2

\* C2: when the retry sent after a successful re-registration is answered 401
\* the caller gets a failure and nothing more is sent; no httpRequest
\* invocation sends more than three requests.
C2_SecondUnauthorizedFails ==
    /\ [](\A t \in BagToSet(tasks) : t.nReq <= 3)
    /\ [][\A t \in BagToSet(tasks) :
            (TopOf(t) = "retry" /\ Answers(t, "401")) =>
              LET W == Answer(t, "401")
              IN  /\ ~W.ret.ok /\ W.ret.err # "none"
                  /\ W.req = NoReq
                  /\ W.retCount.nReq = 3 /\ W.retCount.nRetry = 1
                  /\ Origin(t) \in HostOrigins => W.retCount.nReg = 1
                  /\ BagCardinality(tasks') = BagCardinality(tasks) - 1
         ]_vars

C2_Witness ==
    /\ last = "retried-401"
    /\ ~isReregistering /\ SessionPresent /\ sessionId = 2

\* The registration requests outstanding against the backend.
RegistrationsInFlight ==
    BagCardinality([t \in {u \in BagToSet(tasks) : u.req.path = "register"}
                        |-> CopiesIn(t, tasks)])

\* C3: at most one registration request is outstanding at any time.
C3_OneRegistrationInFlight == RegistrationsInFlight <= 1

C3_Witness ==
    /\ RegistrationsInFlight = 1
    /\ isReregistering
    /\ last = "failed-fast"

\* C4: a request answered 401 while another call holds the re-authentication
\* flag sends nothing, fails with the HTTP 401 error, and leaves the flag and
\* the four session fields as they were.
C4_FailFastWhileFlagHeld ==
    [][\A t \in BagToSet(tasks) :
        (isReregistering /\ ~Holder(t) /\ Answers(t, "401")) =>
          LET W == Answer(t, "401")
          IN  /\ W.req = NoReq
              /\ W.ret = HttpError(401)
              /\ W.how = "http"
              /\ Counts(W) = [nReq |-> 1, nReg |-> 0, nRetry |-> 0]
              /\ RegistrationsInFlight' = RegistrationsInFlight
              /\ BagCardinality(tasks') = BagCardinality(tasks) - 1
              /\ isReregistering'
              /\ SessionFields' = SessionFields
      ]_vars

C4_Witness ==
    /\ last = "failed-fast"
    /\ isReregistering
    /\ \E t \in BagToSet(tasks) : Holder(t)

\* C5: once a registration has succeeded, a cached catalog snapshot was fetched
\* under the session of the latest successful registration.
C5_CacheOfCurrentSession ==
    toolCatalogCache # << >> => toolCatalogCache[1].tools = nextSession - 1

\* C6: right after a successful register() the four fields are those of the
\* registration answer, the cache is absent and a heartbeat timer is running.
C6_RegisterStoresSession ==
    [][\A t \in BagToSet(tasks) :
        (t.req.path = "register" /\ Answers(t, "200")) =>
          /\ sessionId' = RegistrationResponse(nextSession).session_id
          /\ sessionToken' = RegistrationResponse(nextSession).session_token
          /\ connectionId' = RegistrationResponse(nextSession).connection_id
          /\ expiresAt' = RegistrationResponse(nextSession).expires_at
          /\ toolCatalogCache' = << >>
          /\ heartbeatTimer' /\ liveTimers' = 1
      ]_vars

C6_Witness ==
    /\ last \in {"registered", "retried-ok"}
    /\ sessionId = 2 /\ sessionToken = 2 /\ connectionId = 2 /\ expiresAt = 2
    /\ toolCatalogCache = << >> /\ heartbeatTimer

\* C7: when the registration request of cli main's register() fails,
\* register() rejects with that error itself (not a wrapping error) and the
\* session fields and the cache are as before the call (absent).
C7_RegisterFailureUnchanged ==
    [][\A t \in BagToSet(tasks), resp \in Responses :
        (Origin(t) = "main" /\ Answers(t, resp)) =>
          LET W == Answer(t, resp)
          IN  (W.ret # NoOutcome /\ ~W.ret.ok) =>
                /\ ~W.ret.wrapped
                /\ SessionAbsent'
                /\ toolCatalogCache' = << >>
      ]_vars

\* C8: the session is fully present or fully absent.
C8_SessionAllOrNothing == SessionPresent \/ SessionAbsent

C8_Witness == stopPc = "done" /\ SessionAbsent /\ nextSession > 2

\* C9: when the shutdown started by the end of stdin completes, the heartbeat
\* timer is stopped and the four session fields are null.
C9_StoppedMeansQuiet ==
    [][(stopPc # "done" /\ stopPc' = "done") =>
          /\ ~heartbeatTimer' /\ liveTimers' = 0
          /\ SessionAbsent'
      ]_vars

\* C10: stop() terminates although the disconnect is never answered: the
\* timeout resumes it, and it completes normally with the session cleared.
C10_StopTerminates ==
    /\ (stopPc = "waiting") ~> (stopPc = "done")
    /\ [][(stopPc = "waiting" /\ stopPc' # "waiting") =>
             (stopPc' = "done" /\ SessionAbsent')]_vars

C10_Witness ==
    /\ last = "stop-timeout"
    /\ stopPc = "done" /\ disconnect = "inflight" /\ SessionAbsent

\* The client's fields as a turn leaves them.
ClientAfter(W) ==
    <<W.sessionId, W.sessionToken, W.connectionId, W.expiresAt, W.toolCatalogCache,
      W.heartbeatTimer, W.isReregistering, W.isRunning, W.liveTimers>>

\* C11: a heartbeat never sends a registration request and never takes the
\* re-authentication flag: the timer's callback sends at most one heartbeat
\* request, with retry disabled, and whatever answers it (200, unparsable 200,
\* 401, 429, 500, network error), with the flag held or clear, nothing is
\* sent, the call ends, and the flag is as before.
C11_HeartbeatNeverReauths ==
    /\ \A W \in {sendHeartbeat(Running(NewCall))} :
           /\ W.req.path \in {"none", "heartbeat"}
           /\ ~W.req.retryOn401
           /\ W.nReg = 0
           /\ W.isReregistering = isReregistering
    /\ \A t \in BagToSet(tasks) :
          /\ Origin(t) = "heartbeatTick" =>
                /\ t.req.path = "heartbeat" /\ ~t.req.retryOn401
                /\ ~Holder(t) /\ t.nReg = 0 /\ t.nReq = 1
          /\ t.req.path = "heartbeat" =>
                \A resp \in Responses :
                  \A W \in {Answer(t, resp)} :
                      /\ W.req = NoReq
                      /\ Counts(W) = [nReq |-> 1, nReg |-> 0, nRetry |-> 0]
                      /\ W.isReregistering = isReregistering
                      /\ Pending(W) = EmptyBag

C11_Witness ==
    /\ last = "heartbeat-401"
    /\ ~isReregistering /\ RegistrationsInFlight = 0
    /\ SessionPresent /\ heartbeatTimer

\* C12: a heartbeat answered 429 or 401 completes without failure and is not
\* retried, and no heartbeat failure is reported; a heartbeat answered with
\* another error status or failing on the network fails, and a heartbeat that
\* fails was answered neither 429 nor 401 (nor a well-formed 200).
C12_HeartbeatRateLimitedIsNormal ==
    \A t \in BagToSet(tasks), resp \in Responses :
        t.req.path = "heartbeat" =>
          \A W \in {Answer(t, resp)} :
              /\ W.req = NoReq
              /\ W.nReq = 1 /\ W.nRetry = 0
              /\ W.hb \in {"ok", "failed"}
              /\ resp \in {"429", "401"} => W.hb = "ok" /\ W.ret = HttpError(StatusOf(resp))
              /\ resp \in {"500", "neterr"} => W.hb = "failed"
              /\ W.hb = "failed" => resp \notin {"200", "429", "401"}
              /\ <<W.sessionId, W.sessionToken, W.connectionId, W.expiresAt>>
                   = SessionFields

C12_Witness ==
    /\ last = "heartbeat-429"
    /\ tasks = EmptyBag /\ heartbeatTimer /\ SessionPresent

\* Call t has a catalog fetch of getToolCatalog in progress.
CatalogFetch(t) == \E i \in 1..Len(t.stack) : t.stack[i].f = "getToolCatalog"

\* C13: with caching enabled, a tools/list dispatched while a snapshot exists
\* whose age is below its TTL is answered with that snapshot's tools and sends
\* no backend request; the snapshot stays as it is.
C13_FreshSnapshotNoFetch ==
    (/\ phase = "serving" /\ stdinOpen
     /\ ~config.disable_cache /\ config.cache_ttl_seconds # 0
     /\ toolCatalogCache # << >>
     /\ now - toolCatalogCache[1].cached_at < toolCatalogCache[1].ttl_seconds) =>
       \A W \in {handleJsonRpcMessage(Running(NewCall), ToolsListRequest)} :
           /\ W.req = NoReq
           /\ Pending(W) = EmptyBag
           /\ W.cat = Resolved(toolCatalogCache[1].tools)
           /\ W.reply = "result"
           /\ W.toolCatalogCache = toolCatalogCache

C13_Witness ==
    /\ last = "cache-hit"
    /\ fetched /\ nextSession = 2 /\ tasks = EmptyBag
    /\ toolCatalogCache # << >>

\* C14 as stated: once a catalog fetch has succeeded, a catalog fetch that
\* fails makes getToolCatalog return tools, not the error.
C14_StaleAfterAnySuccess ==
    [][\A t \in BagToSet(tasks), resp \in Responses :
        (fetched /\ Answers(t, resp)) =>
          \A W \in {Answer(t, resp)} :
              (W.cat # NoOutcome /\ ~W.ret.ok) => W.cat.ok
      ]_vars

\* C14: with caching enabled, a catalog fetch that fails while a snapshot
\* exists (fresh or stale) makes getToolCatalog return that snapshot's tools,
\* not the error; the snapshot stays as it is.
C14_StaleWhileSnapshotExists ==
    \A t \in BagToSet(tasks), resp \in Responses :
        (toolCatalogCache # << >> /\ CatalogFetch(t)) =>
          \A W \in {Answer(t, resp)} :
              (W.cat # NoOutcome /\ ~W.ret.ok) =>
                /\ W.cat = Resolved(toolCatalogCache[1].tools)
                /\ W.toolCatalogCache = toolCatalogCache
                /\ Origin(t) = "handleToolsList" => W.reply = "result"

C14_Witness ==
    /\ last = "catalog-stale"
    /\ fetched /\ toolCatalogCache # << >>
    /\ now - toolCatalogCache[1].cached_at >= toolCatalogCache[1].ttl_seconds

\* C15: a catalog fetch that fails while no snapshot exists makes
\* getToolCatalog fail with the error of the fetch, and the cache stays absent.
C15_NoSnapshotPropagates ==
    \A t \in BagToSet(tasks), resp \in Responses :
        (toolCatalogCache = << >> /\ CatalogFetch(t)) =>
          \A W \in {Answer(t, resp)} :
              (W.cat # NoOutcome /\ ~W.ret.ok) =>
                /\ W.cat = W.ret
                /\ W.toolCatalogCache = << >>
                /\ Origin(t) = "handleToolsList" => W.reply = "error"

C15_Witness ==
    /\ last = "catalog-failed"
    /\ ~fetched /\ toolCatalogCache = << >> /\ phase = "serving"

\* The turn run by the answer resp to call t, and by a tools/list line, had
\* the client been configured with cfg.
AnswerWith(cfg, t, resp) == httpRequestEnd([Running(t) EXCEPT !.cfg = cfg], t.req, resp)

ToolsListWith(cfg) ==
    handleJsonRpcMessage([Running(NewCall) EXCEPT !.cfg = cfg], ToolsListRequest)

\* The turn's outcome apart from the configuration itself.
ApartFromConfig(W) == [W EXCEPT !.cfg = TtlZero]

\* C16: a client with cache TTL zero and a client with the disable-cache flag
\* behave alike: from the same state every turn has the same outcome under
\* either configuration; no snapshot is ever stored, every tools/list and
\* start() sends a catalog fetch, and a failed fetch always propagates.
C16_TtlZeroLikeDisableFlag ==
    /\ toolCatalogCache = << >>
    /\ config \in {TtlZero, CacheOff}
    /\ \A t \in BagToSet(tasks), resp \in Responses :
          \A W \in {Answer(t, resp)} :
              /\ ApartFromConfig(AnswerWith(TtlZero, t, resp))
                   = ApartFromConfig(AnswerWith(CacheOff, t, resp))
              /\ W.toolCatalogCache = << >>
              /\ (W.cat # NoOutcome /\ ~W.ret.ok) => W.cat = W.ret
              /\ (TopOf(t) = "main" /\ resp = "200") => W.req.path = "tools"
    /\ (phase = "serving" /\ stdinOpen) =>
          /\ ApartFromConfig(ToolsListWith(TtlZero))
               = ApartFromConfig(ToolsListWith(CacheOff))
          /\ ToolsListWith(config).req.path = "tools"
          /\ ToolsListWith(config).out = << >>

C16_Witness ==
    /\ config = TtlZero
    /\ last = "catalog-failed"
    /\ fetched /\ toolCatalogCache = << >> /\ phase = "serving"

\* The turn that reads the line and dispatches it.
Dispatched(line) == handleJsonRpcMessage(Running(NewCall), line)

\* C17: no frame is written for a notification: every frame written carries
\* the id of a request or, for an unreadable line, the null id.
C17_NoFrameForNotification == \A i \in DOMAIN out : out[i].id # IdAbsent

\* C18: a line that is not valid JSON or lacks jsonrpc "2.0" makes the turn
\* write exactly one frame, the error -32700 with a null id; the session, the
\* cache and the pending calls are unchanged and stdin is still being read.
C18_ParseErrorOneFrame ==
    (phase = "serving" /\ stdinOpen) =>
      \A line \in Lines :
        (line.kind # "object" \/ line.jsonrpc # "2.0") =>
          \A W \in {Dispatched(line)} :
              /\ W.out = << ErrorFrame(IdNull, -32700, "Parse error") >>
              /\ ClientAfter(W) = client
              /\ Pending(W) = EmptyBag
              /\ W.phase = "serving" /\ W.stopPc = stopPc
              /\ ENABLED HostLine(line)

C18_Witness ==
    /\ out = << ErrorFrame(IdNull, -32700, "Parse error") >>
    /\ phase = "serving" /\ stdinOpen /\ SessionPresent
    /\ tasks # EmptyBag

\* C19: a tools/call request whose params are absent, lack a name, or have a
\* name that is not a string is answered -32602 under the request's id, and
\* no backend request is sent.
C19_MissingNameInvalidParams ==
    [][\A line \in Lines :
        (/\ line.kind = "object" /\ line.jsonrpc = "2.0" /\ line.id = RequestId
         /\ line.method = "tools/call"
         /\ line.params \in {"absent", "no-name", "name-number"}
         /\ HostLine(line)) =>
          /\ out' = << ErrorFrame(line.id, -32602, "Invalid params: name required") >>
          /\ tasks' = tasks
      ]_vars

\* C20: a valid request whose method is none of initialize, tools/list and
\* tools/call (or is absent) is answered -32601 under the request's id; no
\* backend request is sent and the client's state is unchanged.
C20_UnknownMethodNotFound ==
    (phase = "serving" /\ stdinOpen) =>
      \A line \in Lines :
        (/\ line.kind = "object" /\ line.jsonrpc = "2.0" /\ line.id = RequestId
         /\ line.method \notin {"initialize", "tools/list", "tools/call"}) =>
          \A W \in {Dispatched(line)} :
              /\ W.out = << ErrorFrame(line.id, -32601, "Method not found") >>
              /\ ClientAfter(W) = client
              /\ Pending(W) = EmptyBag
              /\ W.phase = "serving" /\ W.stopPc = stopPc

C20_Witness ==
    /\ out = << ErrorFrame(RequestId, -32601, "Method not found") >>
    /\ phase = "serving" /\ SessionPresent

\* The four error codes and the messages that go with them.
ErrorCodes == {-32700, -32601, -32602, -32603}

ErrorMessages ==
    {"Parse error", "Method not found", "Invalid params: name required",
     "Failed to fetch tool catalog", "Tool invocation failed"}

\* C21: the turn that completes a forwarded tools/call writes one frame under
\* the request's id: the result if the backend's answer was a well-formed 200,
\* otherwise, whatever the failure, the error -32603 "Tool invocation failed";
\* a turn that leaves the call pending writes nothing.  Every error frame
\* written carries one of the four codes and one of the fixed messages.
C21_GenericToolFailure ==
    /\ \A i \in DOMAIN out :
          out[i].kind = "error" =>
            out[i].code \in ErrorCodes /\ out[i].message \in ErrorMessages
    /\ \A t \in BagToSet(tasks), resp \in Responses :
          Origin(t) = "handleToolsCall" =>
            \A W \in {Answer(t, resp)} :
                W.out = IF W.req # NoReq THEN << >>
                        ELSE IF resp = "200" THEN << ResultFrame(t.stack[1].id, "content") >>
                        ELSE << ErrorFrame(t.stack[1].id, -32603,
                                           "Tool invocation failed") >>

C21_Witness ==
    /\ out = << ErrorFrame(RequestId, -32603, "Tool invocation failed") >>
    /\ nextSession = 3 /\ ~isReregistering /\ SessionPresent
    /\ phase = "serving"

\* The client as constructed, keeping the history that mode asks for.
Constructed(mode) ==
    /\ sessionId = Null
    /\ sessionToken = Null
    /\ connectionId = Null
    /\ expiresAt = Null
    /\ toolCatalogCache = << >>
    /\ heartbeatTimer = FALSE
    /\ isReregistering = FALSE
    /\ isRunning = FALSE
    /\ config = DefaultConfig
    /\ liveTimers = 0
    /\ tasks = EmptyBag
    /\ phase = "new"
    /\ stdinOpen = TRUE
    /\ stopPc = "idle"
    /\ disconnect = "none"
    /\ nextSession = 1
    /\ now = 0
    /\ observe = mode
    /\ last = "other"
    /\ fetched = FALSE
    /\ out = << >>
    /\ logged = << >>
    /\ buffer = << >>
    /\ fed = << >>
    /\ emitted = << >>

\* The whole client, with the frames written to stdout kept along with the
\* history of the relay.
InitWire == Constructed("wire")

WireSpec == InitWire /\ [][Next]_vars

\* One JSON-RPC object with jsonrpc "2.0" and a result or an error, and the
\* newline that ends it.
WellFormedFrame(f) ==
    f.jsonrpc = "2.0" /\ f.kind \in {"result", "error"} /\ f.eol = 1

\* C22: whatever a turn writes to stdout is a sequence of well-formed frames:
\* the texts logged by registration, heartbeat, cache and error paths are not
\* among them; the same holds of the turn that dispatches any line.
C22_OnlyFramesOnStdout ==
    /\ \A i \in DOMAIN out : WellFormedFrame(out[i])
    /\ (phase = "serving" /\ stdinOpen) =>
          \A line \in Lines :
              \A W \in {Dispatched(line)} :
                  \A i \in DOMAIN W.out : WellFormedFrame(W.out[i])

C22_Witness ==
    /\ last = "catalog-failed"
    /\ out = << ErrorFrame(RequestId, -32603, "Failed to fetch tool catalog") >>
    /\ SessionPresent /\ ~heartbeatTimer

\* ------------------------------------------------------------ the reader
MAX_BUFFER_SIZE == 10 * 1024 * 1024

MAX_MESSAGE_SIZE == 1 * 1024 * 1024

\* The text of stdin is a sequence of runs of characters: the newline, a
\* blank, the text of an initialize request ("r"), a run of other characters
\* as long as MAX_MESSAGE_SIZE ("M"), and one half as long as MAX_BUFFER_SIZE
\* ("H").
NL == "\n"

Symbols == {NL, " ", "r", "M", "H"}

\* The number of characters of a run.
Width(c) ==
    CASE c = "M" -> MAX_MESSAGE_SIZE
      [] c = "H" -> MAX_BUFFER_SIZE \div 2
      [] c = "r" -> 46
      [] OTHER -> 1

RECURSIVE length(_), split(_), dispatchLines(_, _)

\* text.length
length(text) == IF text = << >> THEN 0 ELSE Width(Head(text)) + length(Tail(text))

\* text.split('\n'): the segments between the newlines, at least one.
split(text) ==
    IF text = << >> THEN << << >> >>
    ELSE LET rest == split(Tail(text))
         IN  IF Head(text) = NL THEN << << >> >> \o rest
             ELSE << <<Head(text)>> \o rest[1] >> \o Tail(rest)

\* line.trim()
trim(line) ==
    IF \A i \in DOMAIN line : line[i] = " " THEN << >>
    ELSE LET ink == {i \in DOMAIN line : line[i] # " "}
             first == CHOOSE i \in ink : \A j \in ink : i <= j
             final == CHOOSE i \in ink : \A j \in ink : j <= i
         IN  SubSeq(line, first, final)

InitializeRequest ==
    [kind |-> "object", jsonrpc |-> "2.0", id |-> RequestId,
     method |-> "initialize", params |-> "absent"]

Unparsable ==
    [kind |-> "garbage", jsonrpc |-> "absent", id |-> IdAbsent,
     method |-> "absent", params |-> "absent"]

\* JSON.parse(line): blanks around the one value are allowed, anything else
\* (no value, two values, other text) is a syntax error.
JSONparse(line) == IF trim(line) = <<"r">> THEN InitializeRequest ELSE Unparsable

\* Variant: every segment is handed on, the one after the last newline too.
Complete_All(lines) == lines

\* Variant: only the first line of a chunk is handed on.
Complete_FirstOnly(lines) == SubSeq(lines, 1, IF Len(lines) > 1 THEN 1 ELSE 0)

\* lines after lines.pop(): every segment that a newline ended.
Complete(lines) == SubSeq(lines, 1, Len(lines) - 1)

\* Variant: the text after the last newline is dropped.
Retained_Dropped(lines) == << >>

\* lines.pop() || '': the text after the last newline.
Retained(lines) == lines[Len(lines)]

\* Variant: every line is within the ceiling.
TooLong_Never(line) == FALSE

TooLong(line) == length(line) > MAX_MESSAGE_SIZE

\* The call a dispatched line started is left pending; the loop goes on.
Detach(W) ==
    [W EXCEPT !.spawned = @ (+) Pending(W), !.stack = << >>, !.req = NoReq,
              !.nReq = 0, !.nReg = 0, !.nRetry = 0]

\* for (const line of lines): a blank line is passed over, a line above the
\* ceiling is logged and passed over, any other is dispatched.
dispatchLines(W, lines) ==
    IF lines = << >> THEN W
    ELSE dispatchLines(
             (IF trim(Head(lines)) = << >> THEN W
              ELSE IF TooLong(Head(lines))
              THEN Log([W EXCEPT !.skipped = @ + 1],
                       "error", <<"Message exceeds max size, ignoring">>)
              ELSE Detach(handleJsonRpcMessage(
                              [W EXCEPT !.emitted = Append(@, Head(lines))],
                              JSONparse(Head(lines))))),
             Tail(lines))

\* Variant: the overflow shuts the client down gracefully.
Overflow_Stop(W) == stop(W)

\* The buffer is above its ceiling: process.exit(1).
Overflow(W) ==
    [Log(W, "error", <<"stdin buffer exceeded max size, terminating">>)
       EXCEPT !.phase = "exited"]

\* The listener of stdin's 'data' event.
stdinData(W, chunk) ==
    IF length(W.buffer \o chunk) > MAX_BUFFER_SIZE
    THEN Overflow([W EXCEPT !.buffer = W.buffer \o chunk])
    ELSE dispatchLines([W EXCEPT !.buffer = Retained(split(W.buffer \o chunk))],
                       Complete(split(W.buffer \o chunk)))

\* The chunks of at most n runs.
Chunks(n) == UNION {[1..k -> Symbols] : k \in 1..n}

\* The turn run by the arrival of chunk.
Read(chunk) == stdinData(Running(NewCall), chunk)

\* stdin delivers a chunk.
StdinData(chunk) ==
    /\ phase = "serving" /\ stdinOpen
    /\ \E W \in {Read(chunk)} :
           /\ BagCardinality(tasks (+) W.spawned) <= MaxTasks
           /\ Commit(W)
           /\ tasks' = tasks (+) W.spawned
           /\ buffer' = W.buffer
           /\ emitted' = emitted \o W.emitted
           /\ last' = IF W.phase = "exited" THEN "overflow"
                       ELSE IF W.skipped > 0 THEN "skipped" ELSE "data"
    /\ fed' = fed \o chunk
    /\ UNCHANGED <<config, observe, stdinOpen, nextSession, now, fetched>>

\* The host's text in chunks of any size, the end of stdin, and the backend's
\* answers (no timer fires).
NextReader ==
    \/ MainRegister
    \/ \E t \in BagToSet(tasks), resp \in Responses : Respond(t, resp)
    \/ \E chunk \in Chunks(MaxText - Len(fed)) : StdinData(chunk)
    \/ StdinEnd

\* The same client with the history of stdin kept.
InitReader == Constructed("reader")

ReaderSpec == InitReader /\ [][NextReader]_vars

\* The segments of the text delivered so far that a newline has ended, and
\* the text after the last newline.
Ended(text) == SubSeq(split(text), 1, Len(split(text)) - 1)

Unended(text) == split(text)[Len(split(text))]

NonBlank(lines) == SelectSeq(lines, LAMBDA l : trim(l) # << >>)

\* The process is alive and no segment delivered is above the message ceiling.
WithinCeilings ==
    /\ phase = "serving"
    /\ \A i \in DOMAIN split(fed) : length(split(fed)[i]) <= MAX_MESSAGE_SIZE

\* C23 as stated: once stdin has delivered a text within the ceilings, in
\* whatever chunks, and has ended, the lines dispatched are the non-blank
\* segments of the text split on newline.
C23_AllSegmentsDispatched ==
    (~stdinOpen /\ WithinCeilings) => emitted = NonBlank(split(fed))

\* C23: for a text within the ceilings delivered in whatever chunks, the lines
\* dispatched are, in order, the non-blank segments that a newline has ended;
\* the segment after the last newline is in the buffer, dispatched neither
\* then nor when stdin ends.
C23_ChunkingTransparent ==
    WithinCeilings =>
      /\ emitted = NonBlank(Ended(fed))
      /\ buffer = Unended(fed)

C23_Witness ==
    /\ phase = "serving" /\ ~stdinOpen
    /\ fed = <<NL, "r", NL, "r">>
    /\ emitted = << <<"r">> >>
    /\ buffer = <<"r">>

\* The number of newlines of a text.
Newlines(text) == Cardinality({i \in DOMAIN text : text[i] = NL})

\* C24: the buffer is the text delivered after the last newline, no more
\* lines have been dispatched than newlines delivered, and a chunk without a
\* newline (that does not overflow the buffer) is appended to the buffer and
\* makes the turn dispatch nothing, write no frame and start no call.
C24_NoDispatchBeforeNewline ==
    /\ phase = "serving" => buffer = Unended(fed)
    /\ Len(emitted) <= Newlines(fed)
    /\ (phase = "serving" /\ stdinOpen) =>
          \A chunk \in Chunks(MaxText - Len(fed)) :
              Newlines(chunk) = 0 =>
                \A W \in {Read(chunk)} :
                    \/ W.phase = "exited"
                    \/ /\ W.emitted = << >>
                       /\ W.out = << >>
                       /\ W.spawned = EmptyBag
                       /\ W.buffer = buffer \o chunk

C24_Witness ==
    /\ last = "data" /\ phase = "serving"
    /\ fed = <<"r", NL, "r">>
    /\ buffer = <<"r">>
    /\ Len(emitted) = 1
    /\ out = << >>

\* A line that is a complete request.
IsRequest(line) == JSONparse(line) = InitializeRequest

\* C25 as stated: stdin delivers two or more complete requests joined by
\* newlines (and ends): as many lines are dispatched as requests, in order.
C25_JoinedRequestsAllEmitted ==
    (/\ phase = "serving" /\ ~stdinOpen
     /\ Len(split(fed)) >= 2
     /\ \A i \in DOMAIN split(fed) : IsRequest(split(fed)[i])) =>
       emitted = split(fed)

\* C25: n complete requests each ended by a newline are dispatched as exactly
\* n lines, in arrival order, and the buffer is empty; of n requests joined by
\* newlines the first n - 1 are dispatched and the last is in the buffer.
C25_TerminatedRequestsEmitted ==
    (/\ phase = "serving"
     /\ \A i \in DOMAIN Ended(fed) : IsRequest(Ended(fed)[i])) =>
       /\ emitted = Ended(fed)
       /\ Len(emitted) = Newlines(fed)
       /\ IsRequest(Unended(fed)) => buffer = Unended(fed) /\ Len(emitted) = Len(split(fed)) - 1
       /\ Unended(fed) = << >> => buffer = << >>

C25_Witness ==
    /\ phase = "serving"
    /\ fed = <<"r", NL, "r", NL>>
    /\ emitted = << <<"r">>, <<"r">> >>
    /\ buffer = << >>
    /\ out # << >>

\* C26: a chunk that takes the buffer above its ceiling ends the process in
\* that turn: nothing is dispatched, no frame is written, no call is started,
\* stop() is not run (no disconnect is sent, the session stays as it was);
\* any other chunk leaves the process alive.
C26_OverflowIsFatal ==
    /\ last = "overflow" =>
          phase = "exited" /\ disconnect = "none" /\ stopPc = "idle" /\ isRunning
    /\ (phase = "serving" /\ stdinOpen) =>
          \A chunk \in Chunks(MaxText - Len(fed)) :
              \A W \in {Read(chunk)} :
                  IF length(buffer \o chunk) > MAX_BUFFER_SIZE
                  THEN /\ W.phase = "exited"
                       /\ W.emitted = << >> /\ W.out = << >>
                       /\ W.spawned = EmptyBag
                       /\ W.disconnect = disconnect /\ W.stopPc = stopPc
                       /\ ClientAfter(W) = client
                  ELSE W.phase = "serving"

C26_Witness ==
    /\ last = "overflow" /\ phase = "exited"
    /\ fed = <<"r", NL, "H", "H">>
    /\ emitted = << >>
    /\ out = << >>
    /\ SessionPresent /\ isRunning /\ disconnect = "none"

\* The non-blank lines within the message ceiling.
Dispatchable(lines) ==
    SelectSeq(lines, LAMBDA l : trim(l) # << >> /\ length(l) <= MAX_MESSAGE_SIZE)

Oversized(lines) ==
    SelectSeq(lines, LAMBDA l : trim(l) # << >> /\ length(l) > MAX_MESSAGE_SIZE)

\* C27: the lines dispatched so far are exactly the non-blank lines within
\* the message ceiling, in order; a chunk that does not overflow the buffer
\* leaves the process alive and makes the turn dispatch each such line it
\* ends and pass over each line above the ceiling.
C27_OversizedLineSkipped ==
    /\ phase = "serving" => emitted = Dispatchable(Ended(fed))
    /\ (phase = "serving" /\ stdinOpen) =>
          \A chunk \in Chunks(MaxText - Len(fed)) :
              length(buffer \o chunk) <= MAX_BUFFER_SIZE =>
                \A W \in {Read(chunk)} :
                    /\ W.phase = "serving"
                    /\ W.emitted = Dispatchable(Ended(buffer \o chunk))
                    /\ W.skipped = Len(Oversized(Ended(buffer \o chunk)))
                    /\ Len(W.out) = Len(W.emitted)

C27_Witness ==
    /\ last = "skipped" /\ phase = "serving"
    /\ fed = <<"H", NL, "r", NL>>
    /\ emitted = << <<"r">> >>
    /\ out = << ResultFrame(RequestId, InitializeResult) >>

\* ------------------------------------------------------- the constructor
MIN_HEARTBEAT == 5

MAX_HEARTBEAT == 300

DEFAULT_HEARTBEAT == 60

\* An optional member of the configuration given: << >> when it is absent,
\* << v >> when it is v.  given ?? default
Coalesce(given, default) == IF given = << >> THEN default ELSE given[1]

\* Variant: an interval below the minimum is let through.
ClampHeartbeat_NoFloor(heartbeat) ==
    IF heartbeat > MAX_HEARTBEAT THEN MAX_HEARTBEAT ELSE heartbeat

\* The interval the constructor stores for the interval given.
ClampHeartbeat(heartbeat) ==
    IF heartbeat < MIN_HEARTBEAT THEN MIN_HEARTBEAT
    ELSE IF heartbeat > MAX_HEARTBEAT THEN MAX_HEARTBEAT
    ELSE heartbeat

\* The warning of each of the two clamping branches.
ClampWarning(W, heartbeat) ==
    IF heartbeat < MIN_HEARTBEAT
    THEN Log(W, "warn", <<"heartbeat_interval_seconds is below minimum. Clamping.",
                          ToString(heartbeat)>>)
    ELSE IF heartbeat > MAX_HEARTBEAT
    THEN Log(W, "warn", <<"heartbeat_interval_seconds exceeds maximum. Clamping.",
                          ToString(heartbeat)>>)
    ELSE W

\* new AmbassadorClient(config), for a configuration whose server_url is a
\* valid https URL: the key is required; the interval is clamped; the TTL is
\* at least zero; the flag defaults to false.  An exception ends cli main().
constructor(W) ==
    IF W.cfg.preshared_key = << >>
    THEN Log([W EXCEPT !.phase = "exited"], "error", <<"Unhandled error:">>)
    ELSE [ClampWarning(W, Coalesce(W.cfg.heartbeat_interval_seconds, DEFAULT_HEARTBEAT))
            EXCEPT !.phase = "new",
                   !.cfg = [preshared_key |-> W.cfg.preshared_key,
                            heartbeat_interval_seconds |->
                                ClampHeartbeat(Coalesce(W.cfg.heartbeat_interval_seconds,
                                                        DEFAULT_HEARTBEAT)),
                            cache_ttl_seconds |->
                                IF Coalesce(W.cfg.cache_ttl_seconds, 60) > 0
                                THEN Coalesce(W.cfg.cache_ttl_seconds, 60) ELSE 0,
                            disable_cache |-> Coalesce(W.cfg.disable_cache, FALSE)]]

\* The intervals tried: every integer from -1 to MaxBeat, and 500.
Beats == (-1 .. MaxBeat) \cup {500}

\* The keys tried: a text of two letters, alone or after one of the two
\* prefixes that maskSecret knows.
KeyTexts == UNION {[1..k -> {"x", "y"}] : k \in 0..MaxKey}

Keys ==
    {PkPrefix \o text : text \in KeyTexts}
      \cup {StPrefix \o text : text \in KeyTexts}
      \cup (KeyTexts \ {<< >>})

\* The configurations given: any interval (or none) with a key as the server
\* issues them, and any key with no interval.
RawConfigs ==
    {[preshared_key |-> SampleKey, heartbeat_interval_seconds |-> beat,
      cache_ttl_seconds |-> <<1>>, disable_cache |-> << >>] :
        beat \in {<< >>} \cup {<<v>> : v \in Beats}}
      \cup {[preshared_key |-> key, heartbeat_interval_seconds |-> << >>,
             cache_ttl_seconds |-> <<1>>, disable_cache |-> << >>] :
               key \in Keys}

\* cli main() before the client is constructed, with the texts logged kept.
InitConfig ==
    /\ sessionId = Null
    /\ sessionToken = Null
    /\ connectionId = Null
    /\ expiresAt = Null
    /\ toolCatalogCache = << >>
    /\ heartbeatTimer = FALSE
    /\ isReregistering = FALSE
    /\ isRunning = FALSE
    /\ config \in RawConfigs
    /\ liveTimers = 0
    /\ tasks = EmptyBag
    /\ phase = "config"
    /\ stdinOpen = TRUE
    /\ stopPc = "idle"
    /\ disconnect = "none"
    /\ nextSession = 1
    /\ now = 0
    /\ observe = "config"
    /\ last = "other"
    /\ fetched = FALSE
    /\ out = << >>
    /\ logged = << >>
    /\ buffer = << >>
    /\ fed = << >>
    /\ emitted = << >>

\* cli main(): new AmbassadorClient(config).
Construct ==
    /\ phase = "config"
    /\ \E W \in {constructor(Running(NewCall))} :
           /\ Commit(W)
           /\ config' = W.cfg
    /\ last' = "other"
    /\ UNCHANGED <<stdin, observe, tasks, stdinOpen, nextSession, now, fetched>>

\* The construction, the registration, the tool calls of the host and the
\* backend's answers, a 401 among them starting the re-registration.
NextConfig ==
    \/ Construct
    \/ MainRegister
    \/ \E t \in BagToSet(tasks), resp \in Responses : Respond(t, resp)
    \/ DispatchToolsCall

ConfigSpec == InitConfig /\ [][NextConfig]_vars

\* The warnings about the interval among the texts a turn logged.
ClampWarnings(texts) ==
    SelectSeq(texts, LAMBDA text :
        text[1] \in {"heartbeat_interval_seconds is below minimum. Clamping.",
                     "heartbeat_interval_seconds exceeds maximum. Clamping."})

Contains(text, key) ==
    \E i \in 1..(Len(text) - Len(key) + 1) : SubSeq(text, i, i + Len(key) - 1) = key

\* C29: no text logged holds the preshared key, and the masked form of the
\* key neither is the key nor holds it.
C29_KeyNeverLogged ==
    /\ \A i \in DOMAIN logged : ~Contains(logged[i], config.preshared_key)
    /\ phase # "config" =>
          /\ maskSecret(config.preshared_key) # config.preshared_key
          /\ ~Contains(maskSecret(config.preshared_key), config.preshared_key)

\* C30: while a tools/call or tools/list request waits for the backend and
\* stdin is read, every line that arrives can be dispatched (as far as the
\* bound on pending calls lets the model follow), and an initialize request is
\* answered in the turn of its arrival, with its result frame, starting no
\* backend call and leaving the pending calls and the client as they were.
C30_PendingCallDoesNotBlock ==
    (/\ phase = "serving" /\ stdinOpen
     /\ \E t \in BagToSet(tasks) :
            Origin(t) \in {"handleToolsCall", "handleToolsList"}) =>
        /\ \A line \in Lines :
              BagCardinality(tasks (+) Pending(Dispatched(line))) <= MaxTasks =>
                  ENABLED HostLine(line)
        /\ \A W \in {Dispatched(InitializeRequest)} :
              /\ W.out = << ResultFrame(RequestId, InitializeResult) >>
              /\ Pending(W) = EmptyBag
              /\ W.phase = "serving"
              /\ W.sessionId = sessionId /\ W.sessionToken = sessionToken
              /\ W.toolCatalogCache = toolCatalogCache

C30_Witness ==
    /\ phase = "serving" /\ stdinOpen
    /\ BagCardinality(tasks) = MaxTasks
    /\ \A t \in BagToSet(tasks) : Origin(t) = "handleToolsCall"
    /\ toolCatalogCache = << >>
    /\ out = << ResultFrame(RequestId, InitializeResult) >>

\* The turns a state can take that may send a request: the answer to a
\* pending call, a line of the host, a heartbeat, cli main's registration.
Turns ==
    {Answer(t, resp) : t \in BagToSet(tasks), resp \in Responses}
      \cup (IF phase = "serving" /\ stdinOpen
            THEN {handleJsonRpcMessage(Running(NewCall), line) : line \in Lines}
            ELSE {})
      \cup (IF liveTimers > 0 THEN {sendHeartbeat(Running(NewCall))} ELSE {})
      \cup (IF phase = "new"
            THEN {register(Push(Running(NewCall), Frame("main")))} ELSE {})

\* C31: whichever turn sends a request, a registration goes without a session
\* token and any other request sent while a session exists goes with the token
\* the client holds at that moment; so no pending registration carries a token.
C31_TokenOnAuthenticatedOnly ==
    /\ \A W \in Turns :
          W.req # NoReq =>
              /\ W.req.path = "register" => W.req.token = Null
              /\ (W.req.path # "register" /\ W.sessionToken # Null) =>
                     W.req.token = W.sessionToken
    /\ \A t \in BagToSet(tasks) : t.req.path = "register" => t.req.token = Null

C31_Witness ==
    /\ sessionToken = 1
    /\ \E t \in BagToSet(tasks) : t.req.path = "register" /\ t.req.token = Null
    /\ \E t \in BagToSet(tasks) : t.req.path = "invoke" /\ t.req.token = 1

\* C32: the turn that dispatches an initialize request writes one frame, the
\* fixed result under the request's id, and sends nothing to the backend; the
\* session, the cache, the re-authentication flag, the heartbeat timer and
\* the process are as before.
C32_InitializeIsStatic ==
    (phase = "serving" /\ stdinOpen) =>
        \A W \in {Dispatched(InitializeRequest)} :
            /\ W.out = << ResultFrame(InitializeRequest.id, InitializeResult) >>
            /\ W.req = NoReq /\ W.stack = << >>
            /\ W.nReq = 0 /\ W.nReg = 0 /\ W.nRetry = 0
            /\ <<W.sessionId, W.sessionToken, W.connectionId, W.expiresAt>>
                 = SessionFields
            /\ W.toolCatalogCache = toolCatalogCache
            /\ W.isReregistering = isReregistering
            /\ W.heartbeatTimer = heartbeatTimer /\ W.liveTimers = liveTimers
            /\ W.isRunning = isRunning /\ W.phase = phase

C32_Witness ==
    /\ out = << ResultFrame(RequestId, InitializeResult) >>
    /\ tasks = EmptyBag
    /\ SessionPresent /\ toolCatalogCache # << >> /\ heartbeatTimer
    /\ ~isReregistering

\* ------------------------------------------------- the cause of a 401
\* The host's requests, the heartbeats and the backend's answers, a 401 with
\* any body.
NextCause ==
    \/ MainRegister
    \/ \E t \in BagToSet(tasks), resp \in Responses \cup Causes : Respond(t, resp)
    \/ DispatchToolsList
    \/ DispatchToolsCall
    \/ HeartbeatFire
    \/ Tick

InitCause == Constructed("cause")

CauseSpec == InitCause /\ [][NextCause]_vars

\* The continuations of a call with wasSuspended set to b in each chain of a
\* re-authentication.
WithSuspended(stack, b) ==
    [i \in DOMAIN stack |->
        IF stack[i].f = "reauth" THEN [stack[i] EXCEPT !.wasSuspended = b]
        ELSE stack[i]]

\* A turn's outcome but for the texts it logged and for wasSuspended.
Blind(W) == [W EXCEPT !.err = << >>, !.stack = WithSuspended(W.stack, FALSE)]

\* Call t is in a re-authentication and awaits the registration's answer.
Reregistering(t) ==
    TopOf(t) = "register" /\ \E i \in DOMAIN t.stack : t.stack[i].f = "reauth"

\* C33: a 401 that starts a re-authentication starts the same one whatever
\* its body (session_suspended, session_expired, another code, not JSON): the
\* registration is sent, the flag is set, session and cache are untouched,
\* and only the text logged tells the causes apart; from then on every answer
\* has the same effect whether or not the cause was a suspension, but for the
\* text logged when the registration succeeds.
C33_CauseDoesNotMatter ==
    \A t \in BagToSet(tasks) :
        /\ (t.req.retryOn401 /\ ~isReregistering) =>
              \A W \in {Answer(t, "401")} :
                  /\ W.req.path = "register" /\ W.isReregistering
                  /\ W.nReg = t.nReg + 1 /\ W.nRetry = t.nRetry
                  /\ \A cause \in Causes :
                        \A V \in {Answer(t, cause)} :
                            /\ Blind(V) = Blind(W)
                            /\ V.err # W.err \/ cause = "401-unparsable"
                  /\ Answer(t, "401-suspended").err # Answer(t, "401-expired").err
        /\ Reregistering(t) =>
              \A resp \in Responses \cup Causes :
                  \A W \in {Answer([t EXCEPT !.stack = WithSuspended(t.stack, TRUE)], resp)},
                     V \in {Answer([t EXCEPT !.stack = WithSuspended(t.stack, FALSE)], resp)} :
                      /\ Blind(W) = Blind(V)
                      /\ (W.err = V.err) <=> (resp # "200")

C33_Witness ==
    /\ isReregistering
    /\ \E t \in BagToSet(tasks) :
          /\ Reregistering(t) /\ Origin(t) = "handleToolsCall"
          /\ \E i \in DOMAIN t.stack :
                t.stack[i].f = "reauth" /\ t.stack[i].wasSuspended
    /\ SessionPresent /\ toolCatalogCache # << >>

\* C34: a step that finds a snapshot and leaves none is the arrival of a
\* successful registration answer; any other step that changes the snapshot
\* stores a new one, taken at the present time (a successful fetch).  So
\* neither the clock, nor a failed fetch or registration, nor a heartbeat, a
\* tool invocation or the shutdown removes it.
C34_SnapshotRemovedOnlyByRegistration ==
    [][toolCatalogCache # << >> =>
          /\ toolCatalogCache' = << >> =>
                /\ nextSession' = nextSession + 1
                /\ sessionToken' = nextSession
          /\ (toolCatalogCache' # << >> /\ toolCatalogCache' # toolCatalogCache) =>
                /\ toolCatalogCache'[1].cached_at = now
                /\ nextSession' = nextSession]_vars

C34_Witness ==
    /\ toolCatalogCache = << >>
    /\ fetched
    /\ nextSession = 3 /\ sessionToken = 2
    /\ now = 1 /\ stopPc = "idle"

\* ------------------------------------------------ requests and replies
\* The requests of the host: the valid messages, under either of two ids.
Requests ==
    {[line EXCEPT !.id = id] :
        line \in {m \in Lines : ValidMessage(m) /\ m.id = RequestId},
        id \in {RequestId, SecondId}}

\* The host's requests and the backend's answers.
NextOrder ==
    \/ MainRegister
    \/ \E t \in BagToSet(tasks), resp \in Responses : Respond(t, resp)
    \/ \E line \in Requests : HostLine(line)

InitOrder == Constructed("order")

OrderSpec == InitOrder /\ [][NextOrder]_vars

\* C35: the turn that dispatches a request either writes one frame, under
\* the request's id, or leaves one call pending that keeps the id and writes
\* nothing; the turn run by an answer to such a call either writes one frame
\* under the id kept and ends the call, or writes nothing and sends the call's
\* next request, of which there are three at most; the answers to other
\* calls write no frame.  So each request gets one frame once its backend
\* calls are answered, in the order the answers arrive.
C35_OneFramePerRequest ==
    /\ (phase = "serving" /\ stdinOpen) =>
          \A line \in Requests :
              \A W \in {Dispatched(line)} :
                  IF W.req = NoReq
                  THEN /\ Len(W.out) = 1 /\ W.out[1].id = line.id
                       /\ W.stack = << >>
                  ELSE /\ W.out = << >>
                       /\ W.stack[1].f \in HandlerOrigins /\ W.stack[1].id = line.id
    /\ \A t \in BagToSet(tasks), resp \in Responses :
          \A W \in {Answer(t, resp)} :
              IF Origin(t) \notin HandlerOrigins THEN W.out = << >>
              ELSE IF W.req = NoReq
              THEN /\ Len(W.out) = 1 /\ W.out[1].id = t.stack[1].id
                   /\ W.stack = << >>
              ELSE /\ W.out = << >>
                   /\ W.stack[1] = t.stack[1]
                   /\ W.nReq = t.nReq + 1 /\ W.nReq <= 3

C35_Witness ==
    /\ last = "overtook"
    /\ out = << ResultFrame(SecondId, "content") >>
    /\ \E t \in BagToSet(tasks) :
          Origin(t) = "handleToolsCall" /\ t.stack[1].id = RequestId

\* A call that holds the re-authentication flag awaits an answer: one of the
\* steps Respond(t, resp) for that call is enabled.
HolderPending == Alive /\ \E t \in BagToSet(tasks) : Holder(t)

\* The step is the arrival of the answer to such a call: the call leaves the
\* bag of pending calls (in the state it was in).
HolderAnswered ==
    \E t \in BagToSet(tasks) : Holder(t) /\ CopiesIn(t, tasks') < CopiesIn(t, tasks)

\* Every request of a re-authentication is answered in the end: weak
\* fairness of the arrival of the holder's answer, WF_vars(HolderAnswered),
\* written out with the enabling condition of that step.
AnswersArrive == []<>~HolderPending \/ []<><<HolderAnswered>>_vars

ReauthFairSpec == Spec /\ AnswersArrive

\* C36: once set, the re-authentication flag is cleared again, whichever way
\* the re-authentication ends; the flag is set exactly while one pending call
\* is in a re-authentication (its registration or its retry is awaited), and a
\* step that clears the flag is the one that ends that call's re-authentication.
C36_FlagEventuallyCleared ==
    /\ isReregistering ~> ~isReregistering
    /\ [](isReregistering <=> \E t \in BagToSet(tasks) : Holder(t))
    /\ [](BagCardinality([t \in {u \in BagToSet(tasks) : Holder(u)}
                              |-> CopiesIn(t, tasks)]) <= 1)

C36_Witness ==
    /\ last = "retried-failed"
    /\ ~isReregistering
    /\ tasks = EmptyBag
    /\ sessionToken = 2 /\ phase = "serving"

\* C37: while a session is present, no registration is in flight, and the
\* shutdown has not begun, a heartbeat timer is scheduled.
C37_SessionKeptAlive ==
    (SessionPresent /\ RegistrationsInFlight = 0
       /\ Alive /\ stdinOpen /\ stopPc = "idle") => heartbeatTimer /\ liveTimers > 0

\* C38: when the registration request of a register() call that is not part
\* of a re-authentication is answered 401, nothing more is sent: the call has
\* sent one registration request, and the re-authentication flag stays clear.
C38_RegisterSingleAttempt ==
    \A t \in BagToSet(tasks) :
        (t.req.path = "register" /\ ~Holder(t)) =>
            \A W \in {Answer(t, "401")} :
                /\ W.req = NoReq
                /\ W.nReg = 1
                /\ ~W.isReregistering

\* C39: the runtime holds one heartbeat interval when the field holds a
\* handle and none when it does not: never two, whatever the interleaving of
\* registrations, re-registrations, start and stop.
C39_OneHeartbeatTimer ==
    /\ liveTimers = (IF heartbeatTimer THEN 1 ELSE 0)
    /\ \A W \in Turns : W.liveTimers = (IF W.heartbeatTimer THEN 1 ELSE 0)

C39_Witness ==
    /\ liveTimers = 1 /\ heartbeatTimer
    /\ nextSession = 3 /\ sessionToken = 2
    /\ stopPc = "idle" /\ phase = "serving"

====
